---- MODULE Spec2Model ----
(***************************************************************************)
(* Vulkan particle demo: the host thread of main() (startup, the winit     *)
(* event loop with its RedrawRequested and CloseRequested handlers, the    *)
(* drop of the VulkanContext) interleaved with the asynchronous execution  *)
(* of the queue (submitted command buffers, present requests) and of the   *)
(* presentation engine.                                                    *)
(*                                                                         *)
(* Vulkan semantics the model relies on:                                   *)
(*  - a fence passed to vkQueueSubmit is signalled when the batches of     *)
(*    that submission complete; it says nothing about a later              *)
(*    vkQueuePresentKHR;                                                   *)
(*  - vkDeviceWaitIdle returns when the queue holds no outstanding         *)
(*    operation, present requests included;                                *)
(*  - a semaphore wait of a batch blocks only the stages named in          *)
(*    pWaitDstStageMask; earlier stages of the batch may run before it;    *)
(*  - commands of a command buffer start in order but overlap unless a     *)
(*    pipeline barrier orders them;                                        *)
(*  - present requests are processed in issue order;                       *)
(*  - a panic unwinds (the default profile) and drops the closure that     *)
(*    owns the VulkanContext;                                              *)
(*  - elwt.exit() asks the event loop to stop and returns: events already  *)
(*    queued for the running iteration (a second close request, the redraw *)
(*    AboutToWait asked for) may still reach the closure before            *)
(*    event_loop.run returns;                                              *)
(*  - a call that is passed a destroyed handle is undefined: it may return *)
(*    an error, end the process, or return as if nothing were wrong.       *)
(***************************************************************************)
EXTENDS Integers, Sequences, FiniteSets, TLC

\* Bounds of the model.
MaxFrames == 3          \* redraw ticks delivered by the event loop
MaxImages == 3          \* most images a swapchain reports
MaxCount == 2           \* most particles ParticleSystem::new is followed for
RandScale == 4      \* rand::random::<f32>() yields k / RandScale, k below it
MaxTypes == 3           \* entries of memory_types find_memory_type is given

\* Program constants.
ParticleCount == 10000  \* main.rs:27, ParticleSystem::new(&context, 10000)
LocalSizeX == 256       \* main.rs:97, (count + 255) / 256
ParticleSize == 16      \* particles.rs:8-11, size_of::<Particle>()

VARIABLES
    pc,              \* position of the host thread
    exit,            \* how main ends: "none", "ok", "err", "panic"
    cause,           \* the error or panic that ended it, "" if none
    live,            \* Vulkan objects created and not destroyed
    destroyed,       \* destroyed objects, in order of destruction
    surface_formats, \* what get_physical_device_surface_formats returned
    format,          \* the surface format Renderer::new selected
    numImages,       \* renderer.images.len()
    cmdbuf,          \* command_buffers: index -> recorded commands
    frame,           \* number of the current redraw tick
    image_index,     \* image index returned by acquire_next_image
    fence,           \* in_flight_fence: "signaled" / "unsignaled"
    ia,              \* image_available_semaphore
    rf,              \* render_finished_semaphore: frames of unconsumed signals
    subs,            \* submitted batches not yet complete
    presents,        \* present requests not yet processed
    imgs,            \* image index -> "free" / "acquired" / "queued"
    stepLog,         \* frame -> frame steps the host has run, in order
    reports,         \* first frame that saw a suboptimal status (0: none) and
                     \* the <<frame, step>> whose call returned an error
    gpuLog,          \* frames whose batch completed / whose image was presented
    badDestroy,      \* objects destroyed while queue work was pending
    idleWaited,      \* device_wait_idle has returned
    closedBusy,      \* the close request arrived with queue work pending
    picked,          \* the selection startup made last and has not used yet:
                     \* what it chose from and the index it chose
    hostAccess,      \* host accesses to the particle memory, in order
    calc,            \* argument and result of a function evaluated alone
    afterExit,       \* events delivered to the closure since elwt.exit()
    staleUse         \* objects passed to a Vulkan call after their destruction

vars == <<pc, exit, cause, live, destroyed, surface_formats, format, numImages,
          cmdbuf, frame, image_index, fence, ia, rf, subs, presents, imgs,
          stepLog, reports, gpuLog, badDestroy, idleWaited, closedBusy,
          picked, hostAccess, calc, afterExit, staleUse>>

hostVars  == <<pc, exit, cause>>
objVars   == <<live, destroyed, badDestroy>>
swapVars  == <<surface_formats, format, numImages>>
frameVars == <<cmdbuf, frame, image_index, stepLog, reports>>
gpuVars   == <<fence, ia, rf, subs, presents, imgs, gpuLog>>
closeVars == <<idleWaited, closedBusy>>
exitVars  == <<afterExit, staleUse>>
auxVars   == <<picked, hostAccess, calc, exitVars>>

----------------------------------------------------------------------------
\* Helpers

Obj(kind) == <<kind, 0>>
ObjN(kind, n) == { <<kind, i>> : i \in 0..(n - 1) }

RemoveAt(s, i) == [j \in 1..(Len(s) - 1) |-> IF j < i THEN s[j] ELSE s[j + 1]]

\* Queue work that the device has not finished.
Pending == subs # <<>> \/ presents # <<>>

\* vkDestroy* / vkFree* of the objects in the sequence objs, in order.
DestroyAll(objs) ==
    /\ live' = live \ { objs[i] : i \in DOMAIN objs }
    /\ destroyed' = destroyed \o objs
    /\ badDestroy' = badDestroy \cup
           (IF Pending THEN { objs[i] : i \in DOMAIN objs } ELSE {})

\* A fallible startup call at position `at`: on success the objects objs
\* exist and the host moves to next; on failure `?` returns Err(why) from
\* main.
Create(at, next, objs, why) ==
    /\ pc = at
    /\ \/ /\ live' = live \cup objs
          /\ pc' = next
          /\ UNCHANGED <<exit, cause>>
       \/ /\ pc' = "drop"
          /\ exit' = "err"
          /\ cause' = why
          /\ UNCHANGED live
    /\ UNCHANGED <<destroyed, badDestroy>>

----------------------------------------------------------------------------
\* Inputs of the environment

None == -1

\* Physical devices: each a sequence of queue families, a family being
\* [gc |-> supports GRAPHICS|COMPUTE, present |-> supports the surface].
QueueFamilies ==
    { [gc |-> g, present |-> p] : g \in BOOLEAN, p \in BOOLEAN }
DeviceLists ==
    { <<>> } \cup { <<<<f>>>> : f \in QueueFamilies }
             \cup { <<<<f>>, <<g, h>>>> :
                      f \in { [gc |-> TRUE, present |-> FALSE] },
                      g \in { [gc |-> FALSE, present |-> TRUE] },
                      h \in QueueFamilies }

\* Results of get_physical_device_surface_formats.
FormatLists ==
    { <<>>, <<"R8G8B8A8_SRGB">>, <<"B8G8R8A8_SRGB", "B8G8R8A8_UNORM">> }

\* Memory types of the physical device (property flag sets) and the type
\* filters a buffer can require (sets of allowed indices).
MemoryTypeLists ==
    { <<{"DEVICE_LOCAL"}>>,
      <<{"DEVICE_LOCAL"}, {"HOST_VISIBLE", "HOST_COHERENT"}>>,
      <<{"HOST_VISIBLE"}, {"DEVICE_LOCAL", "HOST_VISIBLE", "HOST_COHERENT"}>> }
TypeFilters == { {0}, {1}, {0, 1} }

----------------------------------------------------------------------------
\* Pure functions of the program

\* The first family of device d that supports graphics+compute and the
\* surface, as a 0-based index, or None.
FirstFamily(d) ==
    LET ok == { i \in DOMAIN d : d[i].gc /\ d[i].present }
    IN IF ok = {} THEN None
       ELSE (CHOOSE i \in ok : \A j \in ok : i <= j) - 1

\* The first device with such a family: <<device index, family index>>.
PickDevice(devs) ==
    LET ok == { i \in DOMAIN devs : FirstFamily(devs[i]) # None }
    IN IF ok = {} THEN <<None, None>>
       ELSE LET i == CHOOSE k \in ok : \A j \in ok : k <= j
            IN <<i - 1, FirstFamily(devs[i])>>

\* surface_formats.first().unwrap_or(B8G8R8A8_UNORM / SRGB_NONLINEAR)
SelectFormat(formats) ==
    IF formats = <<>> THEN "B8G8R8A8_UNORM" ELSE formats[1]

\* vk::PhysicalDeviceMemoryProperties: memory_type_count and the array
\* memory_types, of which the device fills the first memory_type_count
\* entries. A flags value is the set of its bits, a type filter the set of
\* the bit positions that are 1.
MemProps(types) == [memory_type_count |-> Len(types), memory_types |-> types]

\* Mutant: the loop goes on after a match and the last one is returned.
find_memory_type_Last(type_filter, properties, mem_props) ==
    LET ok == { i \in 0..(mem_props.memory_type_count - 1) :
                    /\ i \in type_filter
                    /\ properties \subseteq mem_props.memory_types[i + 1] }
    IN IF ok = {} THEN None ELSE CHOOSE i \in ok : \A j \in ok : j <= i

\* The turns of `for i in 0..mem_props.memory_type_count` from turn i on:
\* (type_filter & (1 << i)) != 0
\*    && (memory_types[i].property_flags & properties) == properties
\* returns Some(i); the loop running out returns None.
RECURSIVE find_memory_type_from(_, _, _, _)
find_memory_type_from(i, type_filter, properties, mem_props) ==
    IF i >= mem_props.memory_type_count
    THEN None
    ELSE IF /\ (type_filter \cap {i}) # {}
            /\ (mem_props.memory_types[i + 1] \cap properties) = properties
         THEN i
         ELSE find_memory_type_from(i + 1, type_filter, properties, mem_props)

\* find_memory_type (particles.rs:160-167); Some(i) is i.
find_memory_type(type_filter, properties, mem_props) ==
    find_memory_type_from(0, type_filter, properties, mem_props)

\* A u32 is kept as <<high half, low half>> of 16 bits each, so that the
\* whole 32-bit range is exact in the checker's integers.
Half == 2^16
ToU32(n) == <<(n \div Half) % Half, n % Half>>

\* a + k in u32, k < 2^16: the sum before reduction, as <<high, low>> with
\* the carry out of 32 bits left in the high part.
AddWide(a, k) == <<a[1] + ((a[2] + k) \div Half), (a[2] + k) % Half>>
Overflows(w) == w[1] >= Half
Wrap(w) == <<w[1] % Half, w[2]>>

\* a / d in u32 for a d that divides 2^16; the quotient fits an integer
\* of the checker.
DivU32(a, d) == a[1] * (Half \div d) + (a[2] \div d)

\* (count + 255) / 256 on a u32 count. A build without overflow checks
\* (release) wraps the sum; a build with them (debug) panics when the sum
\* leaves 32 bits.
DispatchU32(count, overflow_checks) ==
    LET sum == AddWide(count, LocalSizeX - 1)
    IN IF overflow_checks /\ Overflows(sum)
       THEN [panic |-> TRUE, groups |-> 0]
       ELSE [panic |-> FALSE, groups |-> DivU32(Wrap(sum), LocalSizeX)]

\* (particle_system.count + 255) / 256 for the count main passes: the sum
\* stays far below 2^32, so no build panics.
DispatchGroups(count) == DispatchU32(ToU32(count), TRUE).groups

\* Particle components are kept as numerators over Unit, the denominator
\* that makes both the samples k / RandScale and their tenth exact.
Unit == 10 * RandScale
\* rand::random::<f32>() * 2.0 - 1.0, for the sample k / RandScale
Centered(k) == ((k * Unit) \div RandScale) * 2 - Unit
\* Mutant: the velocity is left undamped.
Damped_Not(x) == x
\* (..) * 0.1
Damped(x) == x \div 10
\* Particle { pos: [..; 2], vel: [..; 2] } from four samples
NewParticle(r) ==
    [ pos |-> <<Centered(r[1]), Centered(r[2])>>,
      vel |-> <<Damped(Centered(r[3])), Damped(Centered(r[4]))>> ]
\* (count as usize * size_of::<Particle>()) as vk::DeviceSize; usize and
\* DeviceSize hold 64 bits, the product of a u32 and 16 fits.
BufferSize(count) == count * ParticleSize

----------------------------------------------------------------------------
\* Initial state: main() is entered, nothing exists yet.

\* No selection is waiting to be used.
NoPick == [kind |-> "none", from |-> <<>>, index |-> <<>>]

\* No function is being evaluated alone.
NoCalc == [fn |-> "none"]

InitRest ==
    /\ exit = "none"
    /\ cause = ""
    /\ live = {}
    /\ destroyed = <<>>
    /\ surface_formats = <<>>
    /\ format = ""
    /\ numImages = 0
    /\ cmdbuf = <<>>
    /\ frame = 0
    /\ image_index = 0
    /\ fence = "none"
    /\ ia = [state |-> "unsignaled", frame |-> 0]
    /\ rf = <<>>
    /\ subs = <<>>
    /\ presents = <<>>
    /\ imgs = <<>>
    /\ stepLog = [f \in 1..MaxFrames |-> <<>>]
    /\ reports = [suboptimal |-> 0, fatal |-> <<>>]
    /\ gpuLog = [completed |-> {}, presented |-> {}]
    /\ badDestroy = {}
    /\ idleWaited = FALSE
    /\ closedBusy = FALSE
    /\ picked = NoPick
    /\ hostAccess = <<>>
    /\ afterExit = <<>>
    /\ staleUse = {}

Init ==
    /\ pc = "c_instance"
    /\ calc = NoCalc
    /\ InitRest

\* What a startup step leaves alone, the three variables of auxVars apart.
StartupRest == <<swapVars, frameVars, gpuVars, closeVars>>

\* `?` on a call that creates nothing: Err(why) leaves main.
Fail(why) ==
    /\ pc' = "drop"
    /\ exit' = "err"
    /\ cause' = why

\* unwrap() on an Err: the thread panics and unwinds.
Panic(why) ==
    /\ pc' = "drop"
    /\ exit' = "panic"
    /\ cause' = why

----------------------------------------------------------------------------
\* VulkanContext::new

CreateInstance ==
    /\ Create("c_instance", "c_surface", {Obj("instance")}, "create_instance")
    /\ UNCHANGED <<StartupRest, auxVars>>

CreateSurface ==
    /\ Create("c_surface", "c_pick", {Obj("surface")}, "create_surface")
    /\ UNCHANGED <<StartupRest, auxVars>>

\* enumerate_physical_devices()?, then the first device with a family that
\* supports graphics+compute and presentation, or "No suitable GPU found".
SelectPhysicalDevice ==
    /\ pc = "c_pick"
    /\ \/ /\ Fail("enumerate_physical_devices")
          /\ UNCHANGED picked
       \/ \E devs \in DeviceLists :
            /\ picked' = [kind |-> "device", from |-> devs,
                          index |-> PickDevice(devs)]
            /\ IF PickDevice(devs) = <<None, None>>
               THEN Fail("No suitable GPU found")
               ELSE pc' = "c_device" /\ UNCHANGED <<exit, cause>>
    /\ UNCHANGED <<objVars, StartupRest, hostAccess, calc, exitVars>>

\* create_device for the selected queue family; the selection is not
\* looked at again by anything the model follows.
CreateDevice ==
    /\ Create("c_device", "r_caps", {Obj("device")}, "create_device")
    /\ picked' = IF pc' = "r_caps" THEN NoPick ELSE picked
    /\ UNCHANGED <<StartupRest, hostAccess, calc, exitVars>>

----------------------------------------------------------------------------
\* Renderer::new

\* Mutant: a failed capability query is noted and creation goes on.
GetSurfaceCapabilities_Continue ==
    /\ pc = "r_caps"
    /\ \/ /\ cause' = "get_physical_device_surface_capabilities"
          /\ pc' = "r_formats"
          /\ UNCHANGED exit
       \/ pc' = "r_formats" /\ UNCHANGED <<exit, cause>>
    /\ UNCHANGED <<objVars, StartupRest, auxVars>>

GetSurfaceCapabilities ==
    /\ pc = "r_caps"
    /\ \/ Fail("get_physical_device_surface_capabilities")
       \/ pc' = "r_formats" /\ UNCHANGED <<exit, cause>>
    /\ UNCHANGED <<objVars, StartupRest, auxVars>>

\* The format query, then surface_formats.first().unwrap_or(..): an empty
\* list selects the fallback format and creation goes on.
GetSurfaceFormats ==
    /\ pc = "r_formats"
    /\ \/ /\ Fail("get_physical_device_surface_formats")
          /\ UNCHANGED swapVars
       \/ \E formats \in FormatLists :
            /\ surface_formats' = formats
            /\ format' = SelectFormat(formats)
            /\ pc' = "r_swapchain"
            /\ UNCHANGED <<exit, cause, numImages>>
    /\ UNCHANGED <<objVars, frameVars, gpuVars, closeVars, auxVars>>

CreateSwapchain ==
    /\ Create("r_swapchain", "r_images", {Obj("swapchain")}, "create_swapchain")
    /\ UNCHANGED <<StartupRest, auxVars>>

\* get_swapchain_images()?: min_image_count + 1 images or more.
GetSwapchainImages ==
    /\ pc = "r_images"
    /\ \/ /\ Fail("get_swapchain_images")
          /\ UNCHANGED <<numImages, imgs>>
       \/ \E n \in 2..MaxImages :
            /\ numImages' = n
            /\ imgs' = [i \in 0..(n - 1) |-> "free"]
            /\ pc' = "r_views"
            /\ UNCHANGED <<exit, cause>>
    /\ UNCHANGED <<objVars, surface_formats, format, frameVars, closeVars,
                   auxVars,
                   fence, ia, rf, subs, presents, gpuLog>>

\* One create_image_view(..).unwrap() per image.
CreateImageViews ==
    /\ pc = "r_views"
    /\ \/ /\ live' = live \cup ObjN("image_view", numImages)
          /\ pc' = "r_render_pass"
          /\ UNCHANGED <<exit, cause>>
       \/ /\ Panic("create_image_view")
          /\ UNCHANGED live
    /\ UNCHANGED <<destroyed, badDestroy, StartupRest, auxVars>>

CreateRenderPass ==
    /\ Create("r_render_pass", "r_framebuffers", {Obj("render_pass")},
              "create_render_pass")
    /\ UNCHANGED <<StartupRest, auxVars>>

\* One create_framebuffer(..).unwrap() per image view.
CreateFramebuffers ==
    /\ pc = "r_framebuffers"
    /\ \/ /\ live' = live \cup
                ObjN("framebuffer",
                     Cardinality({ o \in live : o[1] = "image_view" }))
          /\ pc' = "r_compile"
          /\ UNCHANGED <<exit, cause>>
       \/ /\ Panic("create_framebuffer")
          /\ UNCHANGED live
    /\ UNCHANGED <<destroyed, badDestroy, StartupRest, auxVars>>

\* compile_shader of particle.vert and particle.frag.
CompileGraphicsShaders ==
    /\ pc = "r_compile"
    /\ \/ Fail("shader compilation")
       \/ pc' = "r_modules" /\ UNCHANGED <<exit, cause>>
    /\ UNCHANGED <<objVars, StartupRest, auxVars>>

CreateGraphicsShaderModules ==
    /\ Create("r_modules", "r_layout",
              {Obj("vert_module"), Obj("frag_module")}, "create_shader_module")
    /\ UNCHANGED <<StartupRest, auxVars>>

CreateGraphicsPipelineLayout ==
    /\ Create("r_layout", "r_pipeline", {Obj("r_pipeline_layout")},
              "create_pipeline_layout")
    /\ UNCHANGED <<StartupRest, auxVars>>

\* create_graphics_pipelines, then the two shader modules are destroyed.
CreateGraphicsPipeline ==
    /\ pc = "r_pipeline"
    /\ \/ /\ live' = (live \cup {Obj("graphics_pipeline")})
                        \ {Obj("vert_module"), Obj("frag_module")}
          /\ destroyed' = destroyed \o
                             <<Obj("vert_module"), Obj("frag_module")>>
          /\ pc' = "p_buffer"
          /\ UNCHANGED <<exit, cause, badDestroy>>
       \/ /\ Fail("create_graphics_pipelines")
          /\ UNCHANGED objVars
    /\ UNCHANGED <<StartupRest, auxVars>>

----------------------------------------------------------------------------
\* ParticleSystem::new

CreateBuffer ==
    /\ Create("p_buffer", "p_memtype", {Obj("buffer")}, "create_buffer")
    /\ UNCHANGED <<StartupRest, auxVars>>

\* Mutant: with no matching memory type the constructor goes on to allocate.
FindMemoryType_GoOn ==
    /\ pc = "p_memtype"
    /\ \E filter \in TypeFilters, types \in MemoryTypeLists :
         picked' = [kind |-> "memory_type", from |-> <<filter, types>>,
                    index |-> <<find_memory_type(filter,
                                    {"HOST_VISIBLE", "HOST_COHERENT"},
                                    MemProps(types))>>]
    /\ pc' = "p_alloc"
    /\ UNCHANGED <<exit, cause, objVars, StartupRest, hostAccess, calc,
                   exitVars>>

\* find_memory_type(memory_type_bits, HOST_VISIBLE | HOST_COHERENT, ..)
\*     .ok_or("Failed to find memory type")?
FindMemoryType ==
    /\ pc = "p_memtype"
    /\ \E filter \in TypeFilters, types \in MemoryTypeLists :
         LET mem_type_index ==
                 find_memory_type(filter, {"HOST_VISIBLE", "HOST_COHERENT"},
                                  MemProps(types))
         IN /\ picked' = [kind |-> "memory_type", from |-> <<filter, types>>,
                          index |-> <<mem_type_index>>]
            /\ IF mem_type_index = None
               THEN Fail("Failed to find memory type")
               ELSE pc' = "p_alloc" /\ UNCHANGED <<exit, cause>>
    /\ UNCHANGED <<objVars, StartupRest, hostAccess, calc, exitVars>>

\* allocate_memory with mem_type_index, its only use.
AllocateMemory ==
    /\ Create("p_alloc", "p_bind", {Obj("memory")}, "allocate_memory")
    /\ picked' = IF pc' = "p_bind" THEN NoPick ELSE picked
    /\ UNCHANGED <<StartupRest, hostAccess, calc, exitVars>>

BindBufferMemory ==
    /\ Create("p_bind", "p_upload", {}, "bind_buffer_memory")
    /\ UNCHANGED <<StartupRest, auxVars>>

\* What ParticleSystem::new does to the mapped memory (particles.rs:61-65).
UploadAccess == <<"map_memory", "copy_nonoverlapping", "unmap_memory">>

\* The particles are generated, then map_memory()?, copy, unmap_memory.
UploadParticles ==
    /\ Create("p_upload", "p_set_layout", {}, "map_memory")
    /\ hostAccess' = IF pc' = "p_set_layout" THEN hostAccess \o UploadAccess
                     ELSE hostAccess
    /\ UNCHANGED <<StartupRest, picked, calc, exitVars>>

CreateDescriptorSetLayout ==
    /\ Create("p_set_layout", "p_pool", {Obj("descriptor_set_layout")},
              "create_descriptor_set_layout")
    /\ UNCHANGED <<StartupRest, auxVars>>

CreateDescriptorPool ==
    /\ Create("p_pool", "p_set", {Obj("descriptor_pool")},
              "create_descriptor_pool")
    /\ UNCHANGED <<StartupRest, auxVars>>

\* allocate_descriptor_sets()?, then update_descriptor_sets.
AllocateDescriptorSet ==
    /\ Create("p_set", "p_layout", {Obj("descriptor_set")},
              "allocate_descriptor_sets")
    /\ UNCHANGED <<StartupRest, auxVars>>

CreateComputePipelineLayout ==
    /\ Create("p_layout", "p_compile", {Obj("p_pipeline_layout")},
              "create_pipeline_layout")
    /\ UNCHANGED <<StartupRest, auxVars>>

CompileComputeShader ==
    /\ Create("p_compile", "p_module", {}, "shader compilation")
    /\ UNCHANGED <<StartupRest, auxVars>>

CreateComputeShaderModule ==
    /\ Create("p_module", "p_pipeline", {Obj("comp_module")},
              "create_shader_module")
    /\ UNCHANGED <<StartupRest, auxVars>>

\* create_compute_pipelines, then the shader module is destroyed.
CreateComputePipeline ==
    /\ pc = "p_pipeline"
    /\ \/ /\ live' = (live \cup {Obj("compute_pipeline")})
                        \ {Obj("comp_module")}
          /\ destroyed' = destroyed \o <<Obj("comp_module")>>
          /\ pc' = "m_pool"
          /\ UNCHANGED <<exit, cause, badDestroy>>
       \/ /\ Fail("create_compute_pipelines")
          /\ UNCHANGED objVars
    /\ UNCHANGED <<StartupRest, auxVars>>

----------------------------------------------------------------------------
\* main: command pool, command buffers, synchronisation objects

CreateCommandPool ==
    /\ Create("m_pool", "m_buffers", {Obj("command_pool")},
              "create_command_pool")
    /\ UNCHANGED <<StartupRest, auxVars>>

\* Mutant: two command buffers are allocated, whatever the swapchain holds.
AllocateCommandBuffers_Two ==
    /\ pc = "m_buffers"
    /\ cmdbuf' = [i \in 0..1 |-> <<>>]
    /\ pc' = "m_image_available"
    /\ UNCHANGED <<exit, cause, objVars, swapVars, gpuVars, closeVars, auxVars,
                   frame, image_index, stepLog, reports>>

\* command_buffer_count(renderer.framebuffers.len())
AllocateCommandBuffers ==
    /\ pc = "m_buffers"
    /\ \/ /\ cmdbuf' = [i \in 0..(Cardinality({ o \in live :
                                      o[1] = "framebuffer" }) - 1) |-> <<>>]
          /\ pc' = "m_image_available"
          /\ UNCHANGED <<exit, cause>>
       \/ /\ Fail("allocate_command_buffers")
          /\ UNCHANGED cmdbuf
    /\ UNCHANGED <<objVars, swapVars, gpuVars, closeVars, auxVars,
                   frame, image_index, stepLog, reports>>

CreateImageAvailableSemaphore ==
    /\ Create("m_image_available", "m_render_finished",
              {Obj("image_available_semaphore")}, "create_semaphore")
    /\ UNCHANGED <<StartupRest, auxVars>>

CreateRenderFinishedSemaphore ==
    /\ Create("m_render_finished", "m_fence",
              {Obj("render_finished_semaphore")}, "create_semaphore")
    /\ UNCHANGED <<StartupRest, auxVars>>

\* Mutant: the fence is created without FenceCreateFlags::SIGNALED.
CreateFence_Unsignaled ==
    /\ pc = "m_fence"
    /\ live' = live \cup {Obj("in_flight_fence")}
    /\ fence' = "unsignaled"
    /\ pc' = "loop"
    /\ UNCHANGED <<exit, cause, destroyed, badDestroy, swapVars, frameVars,
                   closeVars, auxVars, ia, rf, subs, presents, imgs, gpuLog>>

\* FenceCreateFlags::SIGNALED; event_loop.run follows.
CreateFence ==
    /\ pc = "m_fence"
    /\ \/ /\ live' = live \cup {Obj("in_flight_fence")}
          /\ fence' = "signaled"
          /\ pc' = "loop"
          /\ UNCHANGED <<exit, cause>>
       \/ /\ Fail("create_fence")
          /\ UNCHANGED <<live, fence>>
    /\ UNCHANGED <<destroyed, badDestroy, swapVars, frameVars, closeVars,
                   auxVars, ia, rf, subs, presents, imgs, gpuLog>>

----------------------------------------------------------------------------
\* The RedrawRequested handler (main.rs:69-161), one action per call

FrameOrder ==
    <<"wait_for_fences", "reset_fences", "acquire_next_image", "record",
      "queue_submit", "queue_present">>

Log(step) == stepLog' = [stepLog EXCEPT ![frame] = Append(@, step)]

\* .unwrap() on Err(status) inside the handler.
FramePanic(step, status) ==
    /\ Panic(status)
    /\ Log(step)
    /\ reports' = [reports EXCEPT !.fatal = <<frame, step>>]

\* A success status whose suboptimal flag is set: the flag is dropped.
NoteSuboptimal(flag) ==
    reports' = IF flag /\ reports.suboptimal = 0
               THEN [reports EXCEPT !.suboptimal = frame]
               ELSE reports

\* The event loop delivers a redraw tick (AboutToWait -> request_redraw).
RedrawRequested ==
    /\ pc = "loop"
    /\ frame < MaxFrames
    /\ frame' = frame + 1
    /\ pc' = "wait"
    /\ UNCHANGED <<exit, cause, objVars, swapVars, gpuVars, closeVars, auxVars,
                   cmdbuf, image_index, stepLog, reports>>

\* Mutant: the handler goes on without waiting for the fence.
WaitForFences_NoWait ==
    /\ pc = "wait"
    /\ pc' = "reset"
    /\ Log("wait_for_fences")
    /\ UNCHANGED <<exit, cause, reports, objVars, swapVars, gpuVars,
                   closeVars, auxVars, cmdbuf, frame, image_index>>

\* wait_for_fences(&[in_flight_fence], true, u64::MAX).unwrap()
WaitForFences ==
    /\ pc = "wait"
    /\ \/ /\ fence = "signaled"
          /\ pc' = "reset"
          /\ Log("wait_for_fences")
          /\ UNCHANGED <<exit, cause, reports>>
       \/ FramePanic("wait_for_fences", "ERROR_DEVICE_LOST")
    /\ UNCHANGED <<objVars, swapVars, gpuVars, closeVars, auxVars,
                   cmdbuf, frame, image_index>>

\* reset_fences(&[in_flight_fence]).unwrap()
ResetFences ==
    /\ pc = "reset"
    /\ fence' = "unsignaled"
    /\ pc' = "acquire"
    /\ Log("reset_fences")
    /\ UNCHANGED <<exit, cause, objVars, swapVars, closeVars, auxVars, reports,
                   cmdbuf, frame, image_index, ia, rf, subs, presents, imgs,
                   gpuLog>>

\* Mutant: an error of acquire_next_image is swallowed and the handler
\* returns to the event loop.
AcquireNextImage_Recover ==
    /\ pc = "acquire"
    /\ \/ /\ pc' = "loop"
          /\ Log("acquire_next_image")
          /\ reports' = [reports EXCEPT
                            !.fatal = <<frame, "acquire_next_image">>]
          /\ fence' = "signaled"
          /\ UNCHANGED <<exit, cause, image_index, imgs, ia>>
       \/ \E i \in DOMAIN imgs, suboptimal \in BOOLEAN :
            /\ imgs[i] = "free"
            /\ image_index' = i
            /\ imgs' = [imgs EXCEPT ![i] = "acquired"]
            /\ ia' = [state |-> "pending", frame |-> frame]
            /\ NoteSuboptimal(suboptimal)
            /\ Log("acquire_next_image")
            /\ pc' = "record"
            /\ UNCHANGED <<exit, cause, fence>>
    /\ UNCHANGED <<objVars, swapVars, closeVars, auxVars, cmdbuf, frame,
                   rf, subs, presents, gpuLog>>

\* acquire_next_image(swapchain, u64::MAX, image_available_semaphore, null)
\*     .unwrap(): Err(ERROR_OUT_OF_DATE_KHR) panics; Ok((index, suboptimal))
\* keeps the index and drops the flag. The call blocks while no image is
\* free; the semaphore is signalled later, by the presentation engine.
AcquireNextImage ==
    /\ pc = "acquire"
    /\ \/ /\ FramePanic("acquire_next_image", "ERROR_OUT_OF_DATE_KHR")
          /\ UNCHANGED <<image_index, imgs, ia>>
       \/ \E i \in DOMAIN imgs, suboptimal \in BOOLEAN :
            /\ imgs[i] = "free"
            /\ image_index' = i
            /\ imgs' = [imgs EXCEPT ![i] = "acquired"]
            /\ ia' = [state |-> "pending", frame |-> frame]
            /\ NoteSuboptimal(suboptimal)
            /\ Log("acquire_next_image")
            /\ pc' = "record"
            /\ UNCHANGED <<exit, cause>>
    /\ UNCHANGED <<objVars, swapVars, closeVars, auxVars, cmdbuf, frame,
                   fence, rf, subs, presents, gpuLog>>

\* Mutant: the buffer barrier is recorded after the draw.
RecordedCommands_LateBarrier(index) ==
    << [op |-> "bind_pipeline", point |-> "COMPUTE"],
       [op |-> "bind_descriptor_sets", point |-> "COMPUTE"],
       [op |-> "dispatch", x |-> (ParticleCount + 255) \div 256, y |-> 1,
        z |-> 1],
       [op |-> "begin_render_pass", framebuffer |-> <<"framebuffer", index>>],
       [op |-> "bind_pipeline", point |-> "GRAPHICS"],
       [op |-> "bind_vertex_buffers", buffer |-> <<"buffer", 0>>],
       [op |-> "draw", vertices |-> ParticleCount, instances |-> 1],
       [op |-> "end_render_pass"],
       [op |-> "pipeline_barrier",
        srcStage |-> "COMPUTE_SHADER", dstStage |-> "VERTEX_INPUT",
        srcAccess |-> "SHADER_WRITE", dstAccess |-> "VERTEX_ATTRIBUTE_READ",
        buffer |-> <<"buffer", 0>>, offset |-> 0, size |-> "WHOLE_SIZE"] >>

\* The commands recorded between begin_command_buffer and
\* end_command_buffer (main.rs:87-135) for image index `index`.
RecordedCommands(index) ==
    << [op |-> "bind_pipeline", point |-> "COMPUTE"],
       [op |-> "bind_descriptor_sets", point |-> "COMPUTE"],
       [op |-> "dispatch", x |-> DispatchGroups(ParticleCount), y |-> 1,
        z |-> 1],
       [op |-> "pipeline_barrier",
        srcStage |-> "COMPUTE_SHADER", dstStage |-> "VERTEX_INPUT",
        srcAccess |-> "SHADER_WRITE", dstAccess |-> "VERTEX_ATTRIBUTE_READ",
        buffer |-> Obj("buffer"), offset |-> 0, size |-> "WHOLE_SIZE"],
       [op |-> "begin_render_pass", framebuffer |-> <<"framebuffer", index>>],
       [op |-> "bind_pipeline", point |-> "GRAPHICS"],
       [op |-> "bind_vertex_buffers", buffer |-> Obj("buffer")],
       [op |-> "draw", vertices |-> ParticleCount, instances |-> 1],
       [op |-> "end_render_pass"] >>

\* Mutant: the handler rewrites the particle memory from the host before
\* it records the frame.
Record_HostWrite ==
    /\ pc = "record"
    /\ image_index \in DOMAIN cmdbuf
    /\ cmdbuf' = [cmdbuf EXCEPT
                     ![image_index] = RecordedCommands(image_index)]
    /\ hostAccess' = hostAccess \o
           <<"map_memory", "copy_nonoverlapping", "unmap_memory">>
    /\ Log("record")
    /\ pc' = "submit"
    /\ UNCHANGED <<exit, cause, reports, objVars, swapVars, gpuVars, closeVars,
                   picked, calc, exitVars, frame, image_index>>

\* cmd = command_buffers[image_index]; reset_command_buffer, begin, the
\* commands, end.
Record ==
    /\ pc = "record"
    /\ image_index \in DOMAIN cmdbuf
    /\ \/ /\ cmdbuf' = [cmdbuf EXCEPT
                           ![image_index] = RecordedCommands(image_index)]
          /\ Log("record")
          /\ pc' = "submit"
          /\ UNCHANGED <<exit, cause, reports>>
       \/ /\ FramePanic("record", "ERROR_OUT_OF_HOST_MEMORY")
          /\ UNCHANGED cmdbuf
    /\ UNCHANGED <<objVars, swapVars, gpuVars, closeVars, auxVars, frame,
                   image_index>>

\* Mutant: the submission waits for no semaphore.
SubmitInfo_NoWait(cb) ==
    [ waitSem |-> "none",
      waitStage |-> "COLOR_ATTACHMENT_OUTPUT",
      cb |-> cb,
      signalSem |-> "render_finished_semaphore" ]

\* SubmitInfo (main.rs:139-148) for the command buffer of index cb.
SubmitInfo(cb) ==
    [ waitSem |-> "image_available_semaphore",
      waitStage |-> "COLOR_ATTACHMENT_OUTPUT",
      cb |-> cb,
      signalSem |-> "render_finished_semaphore" ]

\* Mutant: the handler returns after the submission, without presenting.
QueueSubmit_NoPresent ==
    /\ pc = "submit"
    /\ subs' = Append(subs,
          [ info |-> [ waitSem |-> "image_available_semaphore",
                       waitStage |-> "COLOR_ATTACHMENT_OUTPUT",
                       cb |-> image_index,
                       signalSem |-> "render_finished_semaphore" ],
            fence |-> "in_flight_fence",
            frame |-> frame,
            cmds |-> cmdbuf[image_index],
            compute |-> "idle", draw |-> "idle", iaFrom |-> 0 ])
    /\ Log("queue_submit")
    /\ pc' = "loop"
    /\ imgs' = [imgs EXCEPT ![image_index] = "free"]
    /\ UNCHANGED <<exit, cause, reports, objVars, swapVars, closeVars,
                   auxVars, cmdbuf,
                   frame, image_index, fence, ia, rf, presents, gpuLog>>

\* queue_submit(graphics_queue, &[submit_info], in_flight_fence).unwrap()
QueueSubmit ==
    /\ pc = "submit"
    /\ \/ /\ subs' = Append(subs,
                [ info |-> SubmitInfo(image_index),
                  fence |-> "in_flight_fence",
                  frame |-> frame,
                  cmds |-> cmdbuf[image_index],
                  compute |-> "idle", draw |-> "idle", iaFrom |-> 0 ])
          /\ Log("queue_submit")
          /\ pc' = "present"
          /\ UNCHANGED <<exit, cause, reports>>
       \/ /\ FramePanic("queue_submit", "ERROR_DEVICE_LOST")
          /\ UNCHANGED subs
    /\ UNCHANGED <<objVars, swapVars, closeVars, auxVars, cmdbuf, frame,
                   image_index,
                   fence, ia, rf, presents, imgs, gpuLog>>

\* Mutant: the present request always names the first image.
PresentInfo_First(index) ==
    [ waitSem |-> "render_finished_semaphore", image |-> 0 ]

\* PresentInfoKHR (main.rs:152-157).
PresentInfo(index) ==
    [ waitSem |-> "render_finished_semaphore", image |-> index ]

\* queue_present(graphics_queue, &present_info).unwrap(): Ok(suboptimal)
\* is dropped, Err(ERROR_OUT_OF_DATE_KHR) panics. The handler returns.
QueuePresent ==
    /\ pc = "present"
    /\ \/ \E suboptimal \in BOOLEAN :
            /\ presents' = Append(presents,
                  [info |-> PresentInfo(image_index), frame |-> frame])
            /\ imgs' = [imgs EXCEPT ![PresentInfo(image_index).image] =
                                         "queued"]
            /\ NoteSuboptimal(suboptimal)
            /\ Log("queue_present")
            /\ pc' = "loop"
            /\ UNCHANGED <<exit, cause>>
       \/ /\ FramePanic("queue_present", "ERROR_OUT_OF_DATE_KHR")
          /\ UNCHANGED <<presents, imgs>>
    /\ UNCHANGED <<objVars, swapVars, closeVars, auxVars, cmdbuf, frame,
                   image_index,
                   fence, ia, rf, subs, gpuLog>>

----------------------------------------------------------------------------
\* The queue and the presentation engine, asynchronous to the host

DeviceAlive == Obj("device") \in live

\* Whether the recorded commands hold, between the dispatch and the draw, a
\* barrier from compute-shader writes to vertex-attribute reads.
BarrierOrdersDraw(cmds) ==
    \E b \in DOMAIN cmds :
        /\ cmds[b].op = "pipeline_barrier"
        /\ cmds[b].srcStage = "COMPUTE_SHADER"
        /\ cmds[b].srcAccess = "SHADER_WRITE"
        /\ cmds[b].dstStage = "VERTEX_INPUT"
        /\ cmds[b].dstAccess = "VERTEX_ATTRIBUTE_READ"
        /\ cmds[b].size = "WHOLE_SIZE"
        /\ \E d \in 1..(b - 1) : cmds[d].op = "dispatch"
        /\ \E w \in (b + 1)..Len(cmds) : cmds[w].op = "draw"

\* The dispatch of batch i starts writing the particle buffer; batches
\* start in submission order.
GpuDispatchStart ==
    \E i \in DOMAIN subs :
    /\ DeviceAlive
    /\ subs[i].compute = "idle"
    /\ \A j \in 1..(i - 1) : subs[j].compute # "idle"
    /\ subs' = [subs EXCEPT ![i].compute = "run"]
    /\ UNCHANGED <<hostVars, objVars, swapVars, frameVars, closeVars, auxVars,
                   fence, ia, rf, presents, imgs, gpuLog>>

\* The dispatch has written the buffer and its writes are available.
GpuDispatchEnd ==
    \E i \in DOMAIN subs :
    /\ DeviceAlive
    /\ subs[i].compute = "run"
    /\ subs' = [subs EXCEPT ![i].compute = "done"]
    /\ UNCHANGED <<hostVars, objVars, swapVars, frameVars, closeVars, auxVars,
                   fence, ia, rf, presents, imgs, gpuLog>>

\* The draw of batch i starts reading vertices from the particle buffer:
\* after the dispatch started, and after it ended if a barrier orders them.
GpuVertexInput ==
    \E i \in DOMAIN subs :
    /\ DeviceAlive
    /\ subs[i].draw = "idle"
    /\ subs[i].compute # "idle"
    /\ BarrierOrdersDraw(subs[i].cmds) => subs[i].compute = "done"
    /\ subs' = [subs EXCEPT ![i].draw = "vertex"]
    /\ UNCHANGED <<hostVars, objVars, swapVars, frameVars, closeVars, auxVars,
                   fence, ia, rf, presents, imgs, gpuLog>>

\* The draw reaches color-attachment output: the stage at which the batch
\* waits for (and unsignals) its wait semaphore.
GpuColorOutput ==
    \E i \in DOMAIN subs :
    /\ DeviceAlive
    /\ subs[i].draw = "vertex"
    /\ IF /\ subs[i].info.waitSem = "image_available_semaphore"
          /\ subs[i].info.waitStage = "COLOR_ATTACHMENT_OUTPUT"
       THEN /\ ia.state = "signaled"
            /\ ia' = [state |-> "unsignaled", frame |-> 0]
            /\ subs' = [subs EXCEPT ![i].draw = "color",
                                    ![i].iaFrom = ia.frame]
       ELSE /\ subs' = [subs EXCEPT ![i].draw = "color"]
            /\ UNCHANGED ia
    /\ UNCHANGED <<hostVars, objVars, swapVars, frameVars, closeVars, auxVars,
                   fence, rf, presents, imgs, gpuLog>>

\* Batch i completes: its signal semaphore and its fence are signalled.
\* Signalling a binary semaphore that still holds an unconsumed signal is
\* invalid usage: the signal is either lost or counted.
GpuComplete ==
    \E i \in DOMAIN subs :
    /\ DeviceAlive
    /\ subs[i].compute = "done"
    /\ subs[i].draw = "color"
    /\ subs' = RemoveAt(subs, i)
    /\ IF subs[i].info.signalSem = "render_finished_semaphore"
       THEN \/ rf' = Append(rf, subs[i].frame)
            \/ rf # <<>> /\ rf' = rf
       ELSE UNCHANGED rf
    /\ fence' = IF subs[i].fence = "in_flight_fence" THEN "signaled" ELSE fence
    /\ gpuLog' = [gpuLog EXCEPT !.completed = @ \cup {subs[i].frame}]
    /\ UNCHANGED <<hostVars, objVars, swapVars, frameVars, closeVars, auxVars,
                   ia, presents, imgs>>

\* The presentation engine hands the acquired image over: the semaphore
\* given to acquire_next_image is signalled.
SignalImageAvailable ==
    /\ DeviceAlive
    /\ ia.state = "pending"
    /\ ia' = [ia EXCEPT !.state = "signaled"]
    /\ UNCHANGED <<hostVars, objVars, swapVars, frameVars, closeVars, auxVars,
                   fence, rf, subs, presents, imgs, gpuLog>>

\* The oldest present request waits for (and unsignals) its semaphore and
\* hands the image to the presentation engine, which releases it later;
\* the release is folded into this step.
GpuPresent ==
    /\ DeviceAlive
    /\ presents # <<>>
    /\ LET p == Head(presents)
       IN /\ IF p.info.waitSem = "render_finished_semaphore"
             THEN rf # <<>> /\ rf' = Tail(rf)
             ELSE UNCHANGED rf
          /\ imgs' = [imgs EXCEPT ![p.info.image] = "free"]
          /\ gpuLog' = [gpuLog EXCEPT !.presented = @ \cup {p.frame}]
    /\ presents' = Tail(presents)
    /\ UNCHANGED <<hostVars, objVars, swapVars, frameVars, closeVars, auxVars,
                   fence, ia, subs>>

----------------------------------------------------------------------------
\* The CloseRequested handler (main.rs:57-68) and the end of main

\* Events reach the closure only between two handler runs.
CloseRequested ==
    /\ pc = "loop"
    /\ pc' = "wait_idle"
    /\ closedBusy' = Pending
    /\ UNCHANGED <<exit, cause, objVars, swapVars, frameVars, gpuVars,
                   idleWaited, auxVars>>

\* Mutant: the close handler does not wait for the device.
DeviceIdle_NoWait == TRUE

\* Whether vkDeviceWaitIdle may return.
DeviceIdle == ~Pending

\* device_wait_idle().unwrap()
DeviceWaitIdle ==
    /\ pc = "wait_idle"
    /\ \/ /\ DeviceIdle
          /\ idleWaited' = TRUE
          /\ pc' = "destroy_sync"
          /\ UNCHANGED <<exit, cause>>
       \/ /\ Panic("device_wait_idle")
          /\ UNCHANGED idleWaited
    /\ UNCHANGED <<objVars, swapVars, frameVars, gpuVars, closedBusy,
                   auxVars>>

\* destroy_semaphore x2, destroy_fence
DestroySyncObjects ==
    /\ pc = "destroy_sync"
    /\ DestroyAll(<<Obj("image_available_semaphore"),
                    Obj("render_finished_semaphore"),
                    Obj("in_flight_fence")>>)
    /\ pc' = "destroy_pool"
    /\ UNCHANGED <<exit, cause, swapVars, frameVars, gpuVars, closeVars,
                   auxVars>>

DestroyCommandPool ==
    /\ pc = "destroy_pool"
    /\ DestroyAll(<<Obj("command_pool")>>)
    /\ pc' = "particles_clean"
    /\ UNCHANGED <<exit, cause, swapVars, frameVars, gpuVars, closeVars,
                   auxVars>>

\* Mutant: the memory is freed first, the buffer bound to it after.
ParticleCleanOrder_MemoryFirst ==
    << Obj("memory"), Obj("compute_pipeline"), Obj("p_pipeline_layout"),
       Obj("descriptor_pool"), Obj("descriptor_set_layout"),
       Obj("buffer") >>

\* ParticleSystem::clean (particles.rs:148-157)
ParticleCleanOrder ==
    << Obj("compute_pipeline"), Obj("p_pipeline_layout"),
       Obj("descriptor_pool"), Obj("descriptor_set_layout"),
       Obj("buffer"), Obj("memory") >>

\* The descriptor set is freed with its pool.
ParticleSystemClean ==
    /\ pc = "particles_clean"
    /\ live' = (live \ { ParticleCleanOrder[i] : i \in 1..6 })
                  \ {Obj("descriptor_set")}
    /\ destroyed' = destroyed \o ParticleCleanOrder
    /\ badDestroy' = badDestroy \cup
           (IF Pending THEN { ParticleCleanOrder[i] : i \in 1..6 } ELSE {})
    /\ pc' = "renderer_clean"
    /\ UNCHANGED <<exit, cause, swapVars, frameVars, gpuVars, closeVars,
                   auxVars>>

SeqOf(kind, n) == [i \in 1..n |-> <<kind, i - 1>>]

\* Mutant: the image views go before the framebuffers made from them.
RendererCleanOrder_ViewsFirst ==
    << Obj("graphics_pipeline"), Obj("r_pipeline_layout") >>
    \o SeqOf("image_view", Cardinality({ o \in live : o[1] = "image_view" }))
    \o SeqOf("framebuffer", Cardinality({ o \in live : o[1] = "framebuffer" }))
    \o << Obj("render_pass") >>
    \o << Obj("swapchain") >>

\* Renderer::clean (renderer.rs:225-238)
RendererCleanOrder ==
    << Obj("graphics_pipeline"), Obj("r_pipeline_layout") >>
    \o SeqOf("framebuffer", Cardinality({ o \in live : o[1] = "framebuffer" }))
    \o << Obj("render_pass") >>
    \o SeqOf("image_view", Cardinality({ o \in live : o[1] = "image_view" }))
    \o << Obj("swapchain") >>

RendererClean ==
    /\ pc = "renderer_clean"
    /\ DestroyAll(RendererCleanOrder)
    /\ pc' = "exit"
    /\ UNCHANGED <<exit, cause, swapVars, frameVars, gpuVars, closeVars,
                   auxVars>>

\* The objects each step of the RedrawRequested handler passes to Vulkan
\* (main.rs:71-159), in the order of FrameOrder.
FrameUses ==
    << {Obj("in_flight_fence")},
       {Obj("in_flight_fence")},
       {Obj("swapchain"), Obj("image_available_semaphore")},
       {Obj("command_pool"), Obj("compute_pipeline"),
        Obj("p_pipeline_layout"), Obj("descriptor_set"), Obj("buffer"),
        Obj("render_pass"), Obj("graphics_pipeline")},
       {Obj("command_pool"), Obj("image_available_semaphore"),
        Obj("render_finished_semaphore"), Obj("in_flight_fence")},
       {Obj("swapchain"), Obj("render_finished_semaphore")} >>

\* The objects the CloseRequested handler passes to a destroy call
\* (main.rs:60-65).
CloseUses ==
    {Obj("image_available_semaphore"), Obj("render_finished_semaphore"),
     Obj("in_flight_fence"), Obj("command_pool")}
    \cup { ParticleCleanOrder[i] : i \in DOMAIN ParticleCleanOrder }
    \cup { o \in { destroyed[i] : i \in DOMAIN destroyed } :
             o[1] \in {"graphics_pipeline", "r_pipeline_layout", "framebuffer",
                       "render_pass", "image_view", "swapchain"} }

\* The process ends inside a call, without unwinding: nothing is dropped.
Crash ==
    /\ pc' = "done"
    /\ exit' = "crash"
    /\ cause' = "destroyed handle"

\* The redraw that AboutToWait requested is delivered after the close
\* handler has run: the RedrawRequested handler (main.rs:69-161) runs on
\* the destroyed objects, up to the call that fails or ends the process,
\* or to its end.
RedrawAfterExit ==
    /\ pc = "exit"
    /\ \A k \in DOMAIN afterExit : afterExit[k] # "RedrawRequested"
    /\ afterExit' = Append(afterExit, "RedrawRequested")
    /\ \E n \in DOMAIN FrameUses :
         /\ staleUse' = staleUse \cup
                ((UNION { FrameUses[k] : k \in 1..n }) \ live)
         /\ \/ Panic("ERROR_DEVICE_LOST")
            \/ Crash
            \/ n = Len(FrameUses) /\ UNCHANGED hostVars
    /\ UNCHANGED <<objVars, swapVars, frameVars, gpuVars, closeVars,
                   picked, hostAccess, calc>>

\* A second close request queued behind the first is delivered: the
\* CloseRequested handler (main.rs:57-68) waits for the device, which still
\* exists, and destroys every object once more.
CloseAfterExit ==
    /\ pc = "exit"
    /\ afterExit = <<>>
    /\ afterExit' = <<"CloseRequested">>
    /\ \/ /\ Panic("device_wait_idle")
          /\ UNCHANGED staleUse
       \/ /\ staleUse' = staleUse \cup (CloseUses \ live)
          /\ \/ Crash
             \/ UNCHANGED hostVars
    /\ UNCHANGED <<objVars, swapVars, frameVars, gpuVars, closeVars,
                   picked, hostAccess, calc>>

\* elwt.exit(): event_loop.run returns and main returns Ok(()).
ExitLoop ==
    /\ pc = "exit"
    /\ pc' = "drop"
    /\ exit' = "ok"
    /\ UNCHANGED <<cause, objVars, swapVars, frameVars, gpuVars, closeVars,
                   auxVars>>

\* Mutant: the surface goes before the device.
DropOrder_SurfaceFirst == << Obj("surface"), Obj("device"), Obj("instance") >>

\* Drop for VulkanContext (vulkan_context.rs:102-110), run when main returns
\* or unwinds with the context constructed; nothing else main owns has a
\* destructor that calls Vulkan.
DropOrder == << Obj("device"), Obj("surface"), Obj("instance") >>

DropContext ==
    /\ pc = "drop"
    /\ IF DeviceAlive
       THEN DestroyAll(DropOrder)
       ELSE UNCHANGED objVars
    /\ pc' = "done"
    /\ UNCHANGED <<exit, cause, swapVars, frameVars, gpuVars, closeVars,
                   auxVars>>

----------------------------------------------------------------------------

ContextNew ==
    \/ CreateInstance \/ CreateSurface \/ SelectPhysicalDevice \/ CreateDevice

RendererNew ==
    \/ GetSurfaceCapabilities \/ GetSurfaceFormats \/ CreateSwapchain
    \/ GetSwapchainImages \/ CreateImageViews \/ CreateRenderPass
    \/ CreateFramebuffers \/ CompileGraphicsShaders
    \/ CreateGraphicsShaderModules \/ CreateGraphicsPipelineLayout
    \/ CreateGraphicsPipeline

ParticleSystemNew ==
    \/ CreateBuffer \/ FindMemoryType \/ AllocateMemory \/ BindBufferMemory
    \/ UploadParticles \/ CreateDescriptorSetLayout \/ CreateDescriptorPool
    \/ AllocateDescriptorSet \/ CreateComputePipelineLayout
    \/ CompileComputeShader \/ CreateComputeShaderModule
    \/ CreateComputePipeline

MainSetup ==
    \/ CreateCommandPool \/ AllocateCommandBuffers
    \/ CreateImageAvailableSemaphore \/ CreateRenderFinishedSemaphore
    \/ CreateFence

Frame ==
    \/ RedrawRequested \/ WaitForFences \/ ResetFences \/ AcquireNextImage
    \/ Record \/ QueueSubmit \/ QueuePresent

Gpu ==
    \/ GpuDispatchStart \/ GpuDispatchEnd \/ GpuVertexInput
    \/ GpuColorOutput \/ GpuComplete
    \/ SignalImageAvailable
    \/ GpuPresent

Close ==
    \/ CloseRequested \/ DeviceWaitIdle \/ DestroySyncObjects
    \/ DestroyCommandPool \/ ParticleSystemClean \/ RendererClean
    \/ CloseAfterExit \/ RedrawAfterExit
    \/ ExitLoop \/ DropContext

Next ==
    \/ ContextNew \/ RendererNew \/ ParticleSystemNew \/ MainSetup
    \/ Frame \/ Gpu \/ Close

Spec == Init /\ [][Next]_vars

\* The same program under the scheduling its progress rests on. The host
\* thread runs a handler it has entered to its end: a frame step whose call
\* can return does return (whether a call fails instead is left open, as is
\* the arrival of events). The queue and the presentation engine do not
\* stop while a batch, an acquisition or a present request can go on.
ReturningFrameStep ==
    /\ \/ WaitForFences \/ ResetFences \/ AcquireNextImage
       \/ Record \/ QueueSubmit \/ QueuePresent
    /\ exit' = "none"

FairSpec ==
    /\ Spec
    /\ WF_vars(ReturningFrameStep)
    /\ WF_vars(Gpu)

----------------------------------------------------------------------------
\* The functions of the program that take a count, each evaluated alone on
\* arguments main does not pass: the group count of the dispatch
\* (main.rs:97) and the generation and upload of the particles
\* (particles.rs:26, 46-65).

\* Particle counts for the dispatch, as u32: the small ones, those around
\* the multiples of 256 and of 2^16, and the largest.
DispatchCounts ==
    { ToU32(n) : n \in {0, 1, 2, 255, 256, 257, 511, 512, 513, ParticleCount,
                        Half - 1, Half, Half + 1} }
    \cup { <<h, l>> : h \in {Half \div 2, Half - 1},
                      l \in {0, 1, Half - 2 * LocalSizeX, Half - LocalSizeX - 1,
                             Half - LocalSizeX, Half - LocalSizeX + 1,
                             Half - 1} }

\* Values rand::random::<f32>() is followed for: the least, a middle one
\* and the greatest, as numerators over RandScale.
Samples == {0, RandScale \div 2, RandScale - 1}

\* Arguments find_memory_type is followed for: every filter over the
\* entries, the flags main asks for beside others, and arrays whose entries
\* past memory_type_count hold anything.
FilterArgs == SUBSET (0..(MaxTypes - 1))
PropertyArgs ==
    { {}, {"DEVICE_LOCAL"}, {"HOST_VISIBLE", "HOST_COHERENT"} }
PropertyFlagSets ==
    { {}, {"HOST_VISIBLE"}, {"HOST_VISIBLE", "HOST_COHERENT"},
      {"DEVICE_LOCAL", "HOST_VISIBLE", "HOST_COHERENT"} }
MemPropsArgs ==
    { [memory_type_count |-> n, memory_types |-> t] :
          n \in 0..MaxTypes, t \in [1..MaxTypes -> PropertyFlagSets] }

FnInit ==
    /\ pc = "fn"
    /\ \/ \E c \in DispatchCounts, checks \in BOOLEAN :
            calc = [fn |-> "dispatch", count |-> c, overflow_checks |-> checks,
                    done |-> FALSE, x |-> [panic |-> FALSE, groups |-> 0],
                    y |-> 0, z |-> 0]
       \/ \E n \in 1..MaxCount :
            calc = [fn |-> "particles", count |-> n,
                    buffer_size |-> BufferSize(n), particles |-> <<>>,
                    done |-> FALSE, mapped |-> 0, copied |-> 0,
                    memory |-> <<>>]
       \/ \E f \in FilterArgs, p \in PropertyArgs, mp \in MemPropsArgs :
            calc = [fn |-> "find_memory_type", type_filter |-> f,
                    properties |-> p, mem_props |-> mp, done |-> FALSE,
                    result |-> None]
    /\ InitRest

FnRest ==
    <<hostVars, objVars, swapVars, frameVars, gpuVars, closeVars, picked,
      hostAccess, exitVars>>

\* cmd_dispatch(cmd, (particle_system.count + 255) / 256, 1, 1)
CmdDispatch ==
    /\ calc.fn = "dispatch" /\ ~calc.done
    /\ calc' = [calc EXCEPT
                   !.x = DispatchU32(calc.count, calc.overflow_checks),
                   !.y = 1, !.z = 1, !.done = TRUE]
    /\ UNCHANGED FnRest

\* One turn of `for _ in 0..count { particles.push(Particle {..}) }`.
PushParticle ==
    /\ calc.fn = "particles" /\ ~calc.done
    /\ Len(calc.particles) < calc.count
    /\ \E r \in Samples \X Samples \X Samples \X Samples :
         calc' = [calc EXCEPT !.particles = Append(@, NewParticle(r))]
    /\ UNCHANGED FnRest

\* map_memory(memory, 0, buffer_size, ..), copy_nonoverlapping of count
\* records, unmap_memory.
CopyParticles ==
    /\ calc.fn = "particles" /\ ~calc.done
    /\ Len(calc.particles) = calc.count
    /\ calc' = [calc EXCEPT
                   !.mapped = calc.buffer_size,
                   !.copied = calc.count * ParticleSize,
                   !.memory = SubSeq(calc.particles, 1, calc.count),
                   !.done = TRUE]
    /\ UNCHANGED FnRest

\* find_memory_type(type_filter, properties, mem_props)
CallFindMemoryType ==
    /\ calc.fn = "find_memory_type" /\ ~calc.done
    /\ calc' = [calc EXCEPT
                   !.result = find_memory_type(calc.type_filter,
                                               calc.properties,
                                               calc.mem_props),
                   !.done = TRUE]
    /\ UNCHANGED FnRest

FnNext ==
    \/ CmdDispatch \/ PushParticle \/ CopyParticles
    \/ CallFindMemoryType

FnSpec == FnInit /\ [][FnNext]_vars

----------------------------------------------------------------------------
\* Properties

IsPrefix(s, t) == Len(s) <= Len(t) /\ \A i \in 1..Len(s) : s[i] = t[i]

\* C1. Frame-depth invariant: the Record step never resets or re-records
\* the command buffer of an image index while a submitted batch that uses
\* that command buffer has not completed (its fence is unsignalled).
C1_NoRecordWhilePending ==
    [][(pc = "record" /\ pc' = "submit") =>
          \A i \in DOMAIN subs : subs[i].info.cb # image_index]_vars

\* The second frame has re-recorded the command buffer the first frame
\* recorded and submitted.
C1_Witness ==
    /\ pc = "submit"
    /\ frame = 2
    /\ Cardinality({ k \in DOMAIN cmdbuf : cmdbuf[k] # <<>> }) = 1

\* C2. Concurrency depth 1: at most one submitted batch is incomplete at
\* any time, and Acquire, Record and Submit of a frame run only after the
\* previous frame's batch has completed and the host has reset the fence.
C2_DepthOne ==
    /\ Len(subs) <= 1
    /\ pc \in {"acquire", "record", "submit"} =>
          /\ subs = <<>>
          /\ fence = "unsignaled"
          /\ frame > 1 => (frame - 1) \in gpuLog.completed

C2_Witness ==
    /\ pc = "present"
    /\ frame >= 2
    /\ Len(subs) = 1

\* C3. Every recorded command buffer holds the compute-write ->
\* vertex-read barrier between the dispatch and the draw, and in every
\* execution the draw starts reading vertices only after the dispatch of
\* the same batch has finished writing.
C3_BarrierOrdersDraw ==
    /\ \A k \in DOMAIN cmdbuf :
          cmdbuf[k] # <<>> => BarrierOrdersDraw(cmdbuf[k])
    /\ \A i \in DOMAIN subs :
          subs[i].draw # "idle" => subs[i].compute = "done"

C3_Witness ==
    \E i \in DOMAIN subs :
        /\ subs[i].draw = "vertex"
        /\ subs[i].compute = "done"
        /\ subs[i].frame = 2

\* C4. When a frame begins recording, all queue work of the previous
\* frame is complete, its present request included.
C4_PreviousFrameComplete ==
    (pc = "record" /\ frame >= 2) =>
        /\ \A i \in DOMAIN subs : subs[i].frame >= frame
        /\ \A i \in DOMAIN presents : presents[i].frame >= frame

\* C5. Every redraw tick runs wait, reset, acquire, record, submit and
\* present once each and in that order: the steps run so far in the
\* current tick are a prefix of that order as long as the position of
\* the host says, and every earlier tick ran all of them and enqueued its
\* present request before the next tick started.
StepsBefore(p) ==
    CASE p = "wait" -> 0
      [] p = "reset" -> 1
      [] p = "acquire" -> 2
      [] p = "record" -> 3
      [] p = "submit" -> 4
      [] p = "present" -> 5
      [] OTHER -> 6

C5_StepOrder ==
    \A f \in 1..MaxFrames :
        /\ IsPrefix(stepLog[f], FrameOrder)
        /\ f > frame => stepLog[f] = <<>>
        /\ f < frame =>
              /\ stepLog[f] = FrameOrder
              /\ \/ f \in gpuLog.presented
                 \/ \E i \in DOMAIN presents : presents[i].frame = f
        /\ (f = frame /\ exit # "panic") =>
              Len(stepLog[f]) = StepsBefore(pc)

C5_Witness ==
    /\ frame = 2
    /\ pc = "loop"
    /\ stepLog[1] = FrameOrder
    /\ stepLog[2] = FrameOrder

\* C6. Color-attachment output of a frame's batch starts only after the
\* image-available signal of that frame's Acquire; an image is presented
\* only after its frame's batch has signalled render-finished; and a
\* completed batch leaves the fence signalled.
C6_SemaphoreOrdering ==
    /\ \A i \in DOMAIN subs :
          subs[i].draw = "color" => subs[i].iaFrom = subs[i].frame
    /\ gpuLog.presented \subseteq gpuLog.completed
    /\ frame \in gpuLog.completed => fence = "signaled"

C6_Witness ==
    /\ frame = 2
    /\ 2 \in gpuLog.presented
    /\ fence = "signaled"

\* The objects the close handler destroys, by the group the handler
\* destroys them in: synchronisation objects, command pool, Particle
\* Buffer Resource, Presentation/Graphics resources.
CloseGroup(o) ==
    CASE o[1] \in {"image_available_semaphore", "render_finished_semaphore",
                   "in_flight_fence"} -> 1
      [] o[1] = "command_pool" -> 2
      [] o[1] \in {"compute_pipeline", "p_pipeline_layout", "descriptor_pool",
                   "descriptor_set_layout", "descriptor_set", "buffer",
                   "memory"} -> 3
      [] o[1] \in {"graphics_pipeline", "r_pipeline_layout", "framebuffer",
                   "render_pass", "image_view", "swapchain"} -> 4
      [] OTHER -> 0

IsCloseObject(o) == CloseGroup(o) # 0

CloseLog == SelectSeq(destroyed, IsCloseObject)

OnClosePath ==
    \/ pc \in {"destroy_sync", "destroy_pool", "particles_clean",
               "renderer_clean", "exit"}
    \/ exit = "ok"

GroupsDone(p) ==
    CASE p = "destroy_sync" -> 0
      [] p = "destroy_pool" -> 1
      [] p = "particles_clean" -> 2
      [] p = "renderer_clean" -> 3
      [] OTHER -> 4

\* C7. On a close request the handler destroys only after
\* device_wait_idle has returned with the queue idle, in the order
\* synchronisation objects, command pool, particle resources,
\* presentation resources, and nothing is destroyed while queue work is
\* pending, whatever the queue held when the request arrived.
C7_CloseOrder ==
    /\ ~OnClosePath /\ exit = "none" => CloseLog = <<>>
    /\ OnClosePath =>
          /\ idleWaited
          /\ ~Pending
          /\ badDestroy = {}
          /\ LET log == CloseLog
             IN /\ \A i \in 1..(Len(log) - 1) :
                      CloseGroup(log[i]) <= CloseGroup(log[i + 1])
                /\ \A g \in 1..4 :
                      IF g <= GroupsDone(pc)
                      THEN ~\E o \in live : CloseGroup(o) = g
                      ELSE ~\E i \in DOMAIN log : CloseGroup(log[i]) = g

\* The close request arrived with queue work pending and the handler has
\* destroyed everything.
C7_Witness ==
    /\ closedBusy
    /\ exit = "ok"
    /\ pc = "drop"
    /\ Len(CloseLog) >= 16

\* C8. On every path no GPU resource, the device included, is destroyed
\* while queue work is pending.
C8_NoDestroyWhilePending == badDestroy = {}

\* C9 as claimed. Once a frame step has reported an out-of-date or a
\* suboptimal status, no further frame is started.
C9_AnyStatusFatal ==
    /\ reports.suboptimal # 0 => frame = reports.suboptimal
    /\ reports.fatal # <<>> => frame = reports.fatal[1]

\* C9 as amended. An error status of a frame step (out-of-date included)
\* panics: the failing step is the last step run and no frame follows. A
\* suboptimal status never ends the process: every panic after startup
\* comes from an error status, that of a handler run after elwt.exit()
\* included.
C9_ErrorsFatal ==
    /\ reports.fatal # <<>> =>
          /\ exit = "panic"
          /\ pc \in {"drop", "done"}
          /\ frame = reports.fatal[1]
          /\ stepLog[frame] # <<>>
          /\ stepLog[frame][Len(stepLog[frame])] = reports.fatal[2]
    /\ (exit = "panic" /\ reports.fatal = <<>>) =>
          \/ cause \in {"create_image_view", "create_framebuffer",
                        "device_wait_idle"}
          \/ afterExit # <<>> /\ cause = "ERROR_DEVICE_LOST"

\* A suboptimal status was dropped in one frame and a later frame ended
\* in a panic.
C9_Witness ==
    /\ reports.suboptimal # 0
    /\ reports.fatal # <<>>
    /\ reports.fatal[1] > reports.suboptimal
    /\ pc = "done"

SwapchainCreated ==
    \/ Obj("swapchain") \in live
    \/ \E i \in DOMAIN destroyed : destroyed[i] = Obj("swapchain")

BootstrapCauses ==
    { "No suitable GPU found", "Failed to find memory type",
      "shader compilation" }
NoSuitableDevice(devs) ==
    \A d \in DOMAIN devs : \A f \in DOMAIN devs[d] :
        ~(devs[d][f].gc /\ devs[d][f].present)
NoSuitableMemoryType(filter, types) ==
    \A i \in filter :
        i + 1 \in DOMAIN types =>
            ~({"HOST_VISIBLE", "HOST_COHERENT"} \subseteq types[i + 1])
NoFrameStepRun ==
    /\ frame = 0
    /\ \A f \in DOMAIN stepLog : stepLog[f] = <<>>
    /\ subs = <<>> /\ presents = <<>>
    /\ fence # "unsignaled"
Aborted(why) ==
    /\ exit = "err" /\ cause = why
    /\ pc \in {"drop", "done"}
    /\ NoFrameStepRun
C11_BootstrapFailureAborts ==
    /\ (picked.kind = "device" /\ NoSuitableDevice(picked.from))
          => Aborted("No suitable GPU found")
    /\ (picked.kind = "memory_type"
           /\ NoSuitableMemoryType(picked.from[1], picked.from[2]))
          => Aborted("Failed to find memory type")
    /\ cause \in BootstrapCauses => Aborted(cause)

\* main has returned after a memory-type lookup that found nothing.
C11_Witness ==
    /\ pc = "done"
    /\ picked.kind = "memory_type"
    /\ NoSuitableMemoryType(picked.from[1], picked.from[2])
    /\ cause = "Failed to find memory type"

\* C12. Construction releases on error: when Renderer::new,
\* ParticleSystem::new or the rest of main's startup returns an error,
\* every object it had created is destroyed before the error leaves main,
\* so that nothing but the context's own objects is left when the device
\* is destroyed.
ContextObjects == { Obj("instance"), Obj("surface"), Obj("device") }
C12_ReleasedOnError ==
    exit = "err" => live \subseteq ContextObjects

\* C13. Once startup is over, and in every state after it, the renderer
\* holds as many framebuffers as swapchain images and as image views, main
\* holds as many command buffers, and the image index Acquire returned
\* selects a command buffer and a framebuffer that exist.
Made(kind) ==
    { o \in live \cup { destroyed[i] : i \in DOMAIN destroyed } :
          o[1] = kind }
StartupOver == fence # "none"
C13_CountsAgree ==
    /\ StartupOver =>
          /\ Cardinality(Made("framebuffer")) = numImages
          /\ Cardinality(Made("image_view")) = numImages
          /\ DOMAIN cmdbuf = 0..(numImages - 1)
          /\ DOMAIN imgs = DOMAIN cmdbuf
    /\ pc \in {"record", "submit", "present"} =>
          /\ image_index \in DOMAIN cmdbuf
          /\ <<"framebuffer", image_index>> \in live

\* A frame has acquired the last image of a swapchain of MaxImages images.
C13_Witness ==
    /\ pc = "record"
    /\ numImages = MaxImages
    /\ image_index = numImages - 1
    /\ Cardinality(Made("framebuffer")) = MaxImages

\* C14. For every particle count a u32 can hold, the dispatch is recorded
\* with ceil(count / 256) groups in x and 1 in y and z, so that
\* groups * 256 >= count.
CeilGroups(count) ==
    count[1] * (Half \div LocalSizeX)
        + ((count[2] + LocalSizeX - 1) \div LocalSizeX)
CoversCount(groups, count) ==
    LET high == groups \div (Half \div LocalSizeX)
        low == (groups % (Half \div LocalSizeX)) * LocalSizeX
    IN high > count[1] \/ (high = count[1] /\ low >= count[2])
Submitted ==
    \/ subs # <<>> \/ presents # <<>>
    \/ gpuLog.completed # {} \/ gpuLog.presented # {}
    \/ \E f \in DOMAIN stepLog : stepLog[f] # <<>>
C15_HostAccessOnlyAtCreation ==
    /\ hostAccess \in
          { <<>>, <<"map_memory", "copy_nonoverlapping", "unmap_memory">> }
    /\ hostAccess = <<>> => ~Submitted /\ ~StartupOver
    /\ Obj("descriptor_set_layout") \in live => hostAccess # <<>>

\* The dispatch of a submitted batch is writing the buffer while the host
\* is about to present; the upload is long over.
C15_Witness ==
    /\ pc = "present"
    /\ \E i \in DOMAIN subs : subs[i].compute = "run"
    /\ hostAccess = <<"map_memory", "copy_nonoverlapping", "unmap_memory">>

InLog(o) == \E i \in DOMAIN destroyed : destroyed[i] = o
Before(a, b) ==
    \E i \in DOMAIN destroyed :
        /\ destroyed[i] = a
        /\ \E j \in (i + 1)..Len(destroyed) : destroyed[j] = b

\* C16. ParticleSystem::clean destroys the descriptor pool, then the
\* descriptor set layout, then the buffer, then the memory, and the compute
\* pipeline and its layout before the descriptor set layout and the buffer;
\* no object goes before one that depends on it: the pipeline before its
\* layout, the layout and the pool (with the set allocated from it) before
\* the set layout, the pool before the buffer its set refers to, the buffer
\* before the memory bound to it.
ParticleDependsOn ==
    { <<Obj("compute_pipeline"), Obj("p_pipeline_layout")>>,
      <<Obj("p_pipeline_layout"), Obj("descriptor_set_layout")>>,
      <<Obj("descriptor_pool"), Obj("descriptor_set_layout")>>,
      <<Obj("descriptor_pool"), Obj("buffer")>>,
      <<Obj("buffer"), Obj("memory")>> }
C16_ParticleCleanOrder ==
    /\ \A d \in ParticleDependsOn : InLog(d[2]) => Before(d[1], d[2])
    /\ InLog(Obj("descriptor_pool")) => Obj("descriptor_set") \notin live
    /\ (\E o \in {Obj("descriptor_set_layout"), Obj("buffer"),
                   Obj("memory")} : InLog(o))
         => /\ Before(Obj("descriptor_pool"), Obj("descriptor_set_layout"))
            /\ Before(Obj("descriptor_set_layout"), Obj("buffer"))
            /\ Before(Obj("buffer"), Obj("memory"))
            /\ \A a \in {Obj("compute_pipeline"), Obj("p_pipeline_layout")},
                  b \in {Obj("descriptor_set_layout"), Obj("buffer")} :
                  Before(a, b)

\* ParticleSystem::clean has run in the close handler.
C16_Witness ==
    /\ pc = "renderer_clean"
    /\ InLog(Obj("memory")) /\ InLog(Obj("compute_pipeline"))

\* C17. Renderer::clean destroys the graphics pipeline and its layout, then
\* every framebuffer, then the render pass, then every image view, then the
\* swapchain: each framebuffer before the render pass and before the view
\* it was made from, each view before the swapchain.
C17_RendererCleanOrder ==
    InLog(Obj("swapchain")) =>
        /\ Before(Obj("graphics_pipeline"), Obj("r_pipeline_layout"))
        /\ \A i \in 0..(numImages - 1) :
              /\ Before(Obj("r_pipeline_layout"), <<"framebuffer", i>>)
              /\ Before(<<"framebuffer", i>>, Obj("render_pass"))
              /\ Before(<<"framebuffer", i>>, <<"image_view", i>>)
              /\ Before(Obj("render_pass"), <<"image_view", i>>)
              /\ Before(<<"image_view", i>>, Obj("swapchain"))

\* Renderer::clean has run on a swapchain of MaxImages images.
C17_Witness ==
    /\ pc = "exit"
    /\ numImages = MaxImages
    /\ InLog(Obj("swapchain"))

\* C18. For every count > 0, ParticleSystem::new uploads exactly count
\* particle records, count * 16 bytes, which is the size of the buffer, and
\* every record has both position components in [-1, 1] and both velocity
\* components in [-0.1, 0.1].
InRange(p) ==
    \A k \in 1..2 :
        /\ -Unit <= p.pos[k] /\ p.pos[k] <= Unit
        /\ -Unit <= 10 * p.vel[k] /\ 10 * p.vel[k] <= Unit
C18_UploadedParticles ==
    (calc.fn = "particles" /\ calc.done) =>
        /\ calc.count > 0
        /\ Len(calc.memory) = calc.count
        /\ calc.memory = calc.particles
        /\ calc.copied = calc.count * 16
        /\ calc.copied = calc.buffer_size
        /\ calc.mapped = calc.buffer_size
        /\ \A i \in DOMAIN calc.memory : InRange(calc.memory[i])

\* MaxCount particles are uploaded, one of them with a component at the
\* lower end of each range.
C18_Witness ==
    /\ calc.fn = "particles" /\ calc.done
    /\ calc.count = MaxCount
    /\ \E i \in DOMAIN calc.memory :
          /\ calc.memory[i].pos[1] = -Unit
          /\ 10 * calc.memory[i].vel[2] = -Unit

\* C19. Within a frame one index is used throughout: the image index
\* Acquire returned is the index of the command buffer that is recorded and
\* submitted, of the framebuffer the render pass writes to and of the image
\* passed to Present, so a frame renders into and presents the image it
\* acquired and no other; the draw inside that render pass issues exactly
\* count vertices.
RendersInto(cmds, index) ==
    \E b \in DOMAIN cmds :
        /\ cmds[b].op = "begin_render_pass"
        /\ cmds[b].framebuffer = <<"framebuffer", index>>
        /\ \A k \in DOMAIN cmds : cmds[k].op = "begin_render_pass" => k = b
        /\ \E d \in (b + 1)..Len(cmds) :
              /\ cmds[d].op = "draw"
              /\ cmds[d].vertices = ParticleCount /\ cmds[d].instances = 1
              /\ \A k \in DOMAIN cmds : cmds[k].op = "draw" => k = d
              /\ \E e \in (d + 1)..Len(cmds) : cmds[e].op = "end_render_pass"
C19_IndexConsistency ==
    /\ pc \in {"record", "submit", "present"} =>
          imgs[image_index] = "acquired"
    /\ pc \in {"submit", "present"} =>
          RendersInto(cmdbuf[image_index], image_index)
    /\ \A i \in DOMAIN subs :
          /\ RendersInto(subs[i].cmds, subs[i].info.cb)
          /\ imgs[subs[i].info.cb] \in {"acquired", "queued"}
          /\ subs[i].frame = frame => subs[i].info.cb = image_index
          /\ \A j \in DOMAIN presents :
                presents[j].frame = subs[i].frame =>
                    presents[j].info.image = subs[i].info.cb
    /\ \A j \in DOMAIN presents :
          /\ imgs[presents[j].info.image] = "queued"
          /\ presents[j].frame = frame =>
                presents[j].info.image = image_index

\* The second frame has acquired an image other than the first, rendered
\* into it and handed it to Present while its batch is still pending.
C19_Witness ==
    /\ pc = "loop" /\ frame = 2
    /\ image_index # 0
    /\ \E i \in DOMAIN subs, j \in DOMAIN presents :
          /\ subs[i].frame = 2 /\ presents[j].frame = 2
          /\ subs[i].info.cb = image_index
          /\ presents[j].info.image = image_index

\* C20. The Wait step never deadlocks. The fence is created signalled, and
\* whenever the host is at or before Wait the fence is signalled or a
\* pending submission will signal it; so, the queue completing what it was
\* given and Acquire returning an image whenever one is free, the wait of
\* every redraw tick returns and the tick goes on to Present, unless one of
\* its calls fails or Acquire finds no image free: from every position of
\* the handler at which it is not held up for an image, the host comes to
\* run Present, to panic, or to an Acquire with no image free.
FenceWillSignal ==
    \/ fence = "signaled"
    \/ \E i \in DOMAIN subs : subs[i].fence = "in_flight_fence"
AtOrBeforeWait == pc \in {"loop", "wait"}
NoImageFree == pc = "acquire" /\ \A i \in DOMAIN imgs : imgs[i] # "free"
PresentRun ==
    /\ frame > 0
    /\ \E k \in DOMAIN stepLog[frame] : stepLog[frame][k] = "queue_present"
InTick ==
    \/ pc \in {"wait", "reset", "record", "submit", "present"}
    \/ pc = "acquire" /\ ~NoImageFree
C20_WaitNeverDeadlocks ==
    /\ []((pc = "loop" /\ frame = 0) => fence = "signaled")
    /\ [](AtOrBeforeWait => FenceWillSignal)
    /\ InTick ~> (PresentRun \/ exit = "panic" \/ NoImageFree)

\* The host waits at the fence of a frame after the first while the batch
\* that will signal it is still executing.
C20_Witness ==
    /\ pc = "wait" /\ frame >= 2
    /\ fence = "unsignaled"
    /\ \E i \in DOMAIN subs : subs[i].fence = "in_flight_fence"

\* C21. Binary-semaphore discipline: neither semaphore is signalled again
\* while an earlier signal on it has not been consumed by its wait. The
\* host comes to Acquire, which signals image_available, only with that
\* semaphore unsignalled, and render_finished never holds the signals of
\* two batches at once.
C21_ImageAvailableAlternates ==
    pc = "acquire" => ia.state = "unsignaled"
C21_SignalsAlternate ==
    /\ C21_ImageAvailableAlternates
    /\ Len(rf) <= 1

\* C22. No use after destroy: once the close handler has destroyed the
\* synchronisation objects, the command pool, the particle resources and
\* the presentation resources, no handler that runs later (a further
\* redraw tick, a second close request) passes one of them to Vulkan or
\* destroys it again.
C22_NoUseAfterDestroy == staleUse = {}

\* C23. On the close path on which main returns Ok and no handler ran on
\* destroyed objects after elwt.exit(), the device is destroyed only after
\* every object made from it: when the device is gone nothing
\* is left alive, the semaphores, the fence, the command pool, the particle
\* resources and the presentation resources are in the destruction log
\* before the device, the log ends with device, surface, instance in that
\* order, and nothing is in the log twice.
C23_CloseDestroys ==
    { Obj("image_available_semaphore"), Obj("render_finished_semaphore"),
      Obj("in_flight_fence"), Obj("command_pool"), Obj("swapchain"),
      Obj("render_pass"), Obj("graphics_pipeline"), Obj("r_pipeline_layout"),
      Obj("image_view"), Obj("framebuffer") }
    \cup { ParticleCleanOrder[i] : i \in DOMAIN ParticleCleanOrder }
C23_DeviceLast ==
    (exit = "ok" /\ staleUse = {} /\ ~DeviceAlive) =>
        /\ live = {}
        /\ Len(destroyed) >= 3 + Cardinality(C23_CloseDestroys)
        /\ \A o \in C23_CloseDestroys : InLog(o)
        /\ SubSeq(destroyed, Len(destroyed) - 2, Len(destroyed))
              = << Obj("device"), Obj("surface"), Obj("instance") >>
        /\ \A i \in DOMAIN destroyed :
             \A j \in DOMAIN destroyed :
                destroyed[i] = destroyed[j] => i = j

\* Main has returned Ok after at least one frame and the context has been
\* dropped.
C23_Witness ==
    /\ pc = "done" /\ exit = "ok" /\ frame >= 1
    /\ staleUse = {}
    /\ InLog(Obj("device"))

\* C24. find_memory_type returns Some(i) for the smallest i below
\* memory_type_count whose bit is set in the type filter and whose property
\* flags contain every requested flag, and None exactly when there is no
\* such i.
C24_Matches(i) ==
    /\ i < calc.mem_props.memory_type_count
    /\ i \in calc.type_filter
    /\ calc.properties \subseteq calc.mem_props.memory_types[i + 1]
C24_SmallestMatch ==
    (calc.fn = "find_memory_type" /\ calc.done) =>
        /\ calc.result # None =>
              /\ calc.result \in 0..(MaxTypes - 1)
              /\ C24_Matches(calc.result)
              /\ \A j \in 0..(calc.result - 1) : ~C24_Matches(j)
        /\ calc.result = None <=>
              ~ \E i \in 0..(MaxTypes - 1) : C24_Matches(i)

\* The first entry does not match, the second is returned, and the entry
\* past memory_type_count has the requested flags and its bit in the filter
\* as well.
C24_Witness ==
    /\ calc.fn = "find_memory_type" /\ calc.done
    /\ calc.result = 1
    /\ calc.mem_props.memory_type_count = MaxTypes - 1
    /\ (MaxTypes - 1) \in calc.type_filter
    /\ calc.properties = {"HOST_VISIBLE", "HOST_COHERENT"}
    /\ calc.properties \subseteq calc.mem_props.memory_types[MaxTypes]

====
